---- MODULE Spec2Model ----
(***************************************************************************)
(* Model of the report pipeline of ArgusPanoptes (src/scripts/report):     *)
(*   generate_maps.py    step 3, the geographic figures                    *)
(*   generate_charts.py  step 4, the analytics charts                      *)
(*   render_latex.py     step 5, the classifier and the template context   *)
(*                                                                         *)
(* Text is a sequence of one-character strings where the code looks at     *)
(* characters (titles, keywords) and a TLA+ string where it only compares  *)
(* or concatenates (names, regions, file names).  Coordinates are in       *)
(* tenths of a degree, found_pct in tenths of a percent, an availability   *)
(* rate is the pair <<totalAvailable, totalCopies>> of the division that   *)
(* produced it.                                                            *)
(***************************************************************************)
EXTENDS Integers, Sequences, FiniteSets, TLC

VARIABLES
    script,      \* the program that runs: its __main__ or the function applied
    pc,          \* position of that program
    data,        \* the JSON documents under output/data and tx_counties.geojson
    events,      \* the side effects so far, in order (makedirs, subplots, ...)
    figures,     \* what each saved figure shows, by file name
    divisions,   \* the denominators of the divisions evaluated so far
    raised,      \* the unhandled exception that ended the program, or "none"
    loaded,      \* generate_maps.main's libraries and counties, once loaded
    context,     \* build_context's return value
    title,       \* categorize_book's argument
    cats,        \* categorize_book's return value
    first_cats,  \* categorize_book's return value for the title first given
    all_books,   \* build_theme_stats' argument
    theme_data   \* build_theme_stats' return value

vars == <<script, pc, data, events, figures, divisions, raised, loaded, context,
          title, cats, first_cats, all_books, theme_data>>

(***************************************************************************)
(* Python built-ins the code uses.                                          *)
(***************************************************************************)

\* seq[:n]
Take(seq, n) == SubSeq(seq, 1, IF Len(seq) < n THEN Len(seq) ELSE n)

\* x in seq
InSeq(x, seq) == \E i \in 1..Len(seq) : seq[i] = x

\* dict.get(key, default)
Get(d, key, default) == IF key \in DOMAIN d THEN d[key] ELSE default

\* sum(f(x) for x in seq)
RECURSIVE SumSeq(_)
SumSeq(seq) == IF seq = <<>> THEN 0 ELSE Head(seq) + SumSeq(Tail(seq))

\* all sequences over S of length at most n
SeqsUpTo(S, n) == UNION {[1..k -> S] : k \in 0..n}

NoData == [n \in {} |-> <<>>]

\* the elements of a sequence
Range(seq) == {seq[i] : i \in 1..Len(seq)}

(***************************************************************************)
(* render_latex.py: thematic categorization.                               *)
(***************************************************************************)

UpperCase == <<"A", "B", "C", "D", "E", "F", "G", "H", "I", "J", "K", "L", "M",
               "N", "O", "P", "Q", "R", "S", "T", "U", "V", "W", "X", "Y", "Z">>
LowerCase == <<"a", "b", "c", "d", "e", "f", "g", "h", "i", "j", "k", "l", "m",
               "n", "o", "p", "q", "r", "s", "t", "u", "v", "w", "x", "y", "z">>

\* str.lower() on one character
LowerChar(c) ==
    IF \E i \in 1..Len(UpperCase) : UpperCase[i] = c
    THEN LowerCase[CHOOSE i \in 1..Len(UpperCase) : UpperCase[i] = c]
    ELSE c

\* str.lower()
StrLower(text) == [i \in 1..Len(text) |-> LowerChar(text[i])]

\* kw in text (substring search)
StrIn(kw, text) ==
    \E i \in 1..(Len(text) - Len(kw) + 1) : \A k \in 1..Len(kw) : text[i + k - 1] = kw[k]

THEME_KEYWORDS ==
    ("Gender Identity & Transgender" :> <<
        <<"t", "r", "a", "n", "s", "g", "e", "n", "d", "e", "r">>,
        <<"t", "r", "a", "n", "s", " ">>,
        <<"t", "r", "a", "n", "s", "-">>,
        <<"g", "e", "n", "d", "e", "r", " ", "i", "d", "e", "n", "t", "i", "t", "y">>,
        <<"n", "o", "n", "b", "i", "n", "a", "r", "y">>,
        <<"n", "o", "n", "-", "b", "i", "n", "a", "r", "y">>,
        <<"g", "e", "n", "d", "e", "r", "q", "u", "e", "e", "r">>,
        <<"g", "e", "n", "d", "e", "r", " ", "q", "u", "e", "e", "r">>,
        <<"g", "e", "n", "d", "e", "r", " ", "c", "r", "e", "a", "t", "i", "v", "e">>,
        <<"c", "i", "s", "g", "e", "n", "d", "e", "r">>,
        <<"a", "s", "s", "i", "g", "n", "e", "d", " ", "m", "a", "l", "e">>,
        <<"a", "s", "s", "i", "g", "n", "e", "d", " ", "f", "e", "m", "a", "l", "e">>,
        <<"g", "e", "n", "d", "e", "r", " ", "s", "p", "e", "c", "t", "r", "u", "m">>,
        <<"g", "e", "n", "d", "e", "r", " ", "f", "l", "u", "i", "d">>,
        <<"t", "h", "e", "y", "/", "t", "h", "e", "m">>
    >>)
    @@ ("LGBTQ+ Content" :> <<
        <<"g", "a", "y">>,
        <<"l", "e", "s", "b", "i", "a", "n">>,
        <<"q", "u", "e", "e", "r">>,
        <<"b", "i", "s", "e", "x", "u", "a", "l">>,
        <<"l", "g", "b", "t", "q">>,
        <<"s", "a", "m", "e", "-", "s", "e", "x">>,
        <<"t", "w", "o", " ", "m", "o", "m", "s">>,
        <<"t", "w", "o", " ", "d", "a", "d", "s">>,
        <<"t", "w", "o", " ", "b", "r", "i", "d", "e", "s">>,
        <<"p", "r", "i", "d", "e", " ", "p", "a", "r", "a", "d", "e">>,
        <<"h", "o", "m", "o", "s", "e", "x", "u", "a", "l">>,
        <<"c", "o", "m", "i", "n", "g", " ", "o", "u", "t">>,
        <<"d", "r", "a", "g", " ", "q", "u", "e", "e", "n">>
    >>)
    @@ ("Sexuality & Sex Education" :> <<
        <<"s", "e", "x", " ", "e", "d", "u", "c", "a", "t", "i", "o", "n">>,
        <<"s", "e", "x", " ", "i", "s", " ", "a">>,
        <<"s", "e", "x", "u", "a", "l", "i", "t", "y">>,
        <<"s", "e", "x", "u", "a", "l", " ", "i", "d", "e", "n", "t", "i", "t", "y">>,
        <<"s", "e", "x", "u", "a", "l", " ", "o", "r", "i", "e", "n", "t", "a", "t", "i", "o", "n">>,
        <<"b", "o", "d", "i", "e", "s", ",", " ", "f", "e", "e", "l", "i", "n", "g", "s">>,
        <<"p", "u", "b", "e", "r", "t", "y">>,
        <<"s", ".", "e", ".", "x", ".">>,
        <<"s", "e", "x", ",", " ", "p", "u", "b", "e", "r", "t", "y">>
    >>)
    @@ ("Abortion & Reproductive Politics" :> <<
        <<"a", "b", "o", "r", "t", "i", "o", "n">>,
        <<"r", "o", "e", " ", "v", ".", " ", "w", "a", "d", "e">>,
        <<"r", "e", "p", "r", "o", "d", "u", "c", "t", "i", "v", "e", " ", "r", "i", "g", "h", "t">>,
        <<"p", "r", "o", "-", "c", "h", "o", "i", "c", "e">>,
        <<"p", "r", "o", "-", "l", "i", "f", "e">>,
        <<"p", "l", "a", "n", "n", "e", "d", " ", "p", "a", "r", "e", "n", "t", "h", "o", "o", "d">>
    >>)
    @@ ("Critical Race Theory & Racial Activism" :> <<
        <<"b", "l", "a", "c", "k", " ", "l", "i", "v", "e", "s", " ", "m", "a", "t", "t", "e", "r">>,
        <<"b", "l", "m">>,
        <<"c", "r", "i", "t", "i", "c", "a", "l", " ", "r", "a", "c", "e">>,
        <<"a", "n", "t", "i", "r", "a", "c", "i", "s", "t">>,
        <<"a", "n", "t", "i", "-", "r", "a", "c", "i", "s", "t">>,
        <<"w", "h", "i", "t", "e", " ", "f", "r", "a", "g", "i", "l", "i", "t", "y">>,
        <<"w", "h", "i", "t", "e", " ", "p", "r", "i", "v", "i", "l", "e", "g", "e">>,
        <<"s", "y", "s", "t", "e", "m", "i", "c", " ", "r", "a", "c", "i", "s", "m">>,
        <<"w", "h", "i", "t", "e", " ", "s", "u", "p", "r", "e", "m", "a", "c", "y">>
    >>)

\* categorize_book with the title compared as given
CategorizeBookCaseSensitive(book) ==
    LET text == Get(book, "title", <<>>)
    IN  {cat \in DOMAIN THEME_KEYWORDS :
            \E k \in 1..Len(THEME_KEYWORDS[cat]) : StrIn(THEME_KEYWORDS[cat][k], text)}

categorize_book(book) ==
    LET text == StrLower(Get(book, "title", <<>>))
    IN  {cat \in DOMAIN THEME_KEYWORDS :
            \E k \in 1..Len(THEME_KEYWORDS[cat]) : StrIn(THEME_KEYWORDS[cat][k], text)}

\* b.get("systemCount", 0)
SystemCountOf(b) == Get(b, "systemCount", 0)
SystemCounts(books) == [i \in 1..Len(books) |-> SystemCountOf(books[i])]

\* list.sort(key=..., reverse=True) is stable: x goes behind every element whose
\* key is at least its own
RECURSIVE InsertDesc(_, _)
InsertDesc(sorted, x) ==
    IF sorted = <<>> THEN <<x>>
    ELSE IF SystemCountOf(Head(sorted)) >= SystemCountOf(x)
         THEN <<Head(sorted)>> \o InsertDesc(Tail(sorted), x)
         ELSE <<x>> \o sorted

\* an ascending sort then reversed: equal keys come out in reverse input order
RECURSIVE InsertDescUnstable(_, _)
InsertDescUnstable(sorted, x) ==
    IF sorted = <<>> THEN <<x>>
    ELSE IF SystemCountOf(Head(sorted)) > SystemCountOf(x)
         THEN <<Head(sorted)>> \o InsertDescUnstable(Tail(sorted), x)
         ELSE <<x>> \o sorted

RECURSIVE SortUnstable(_)
SortUnstable(matching) ==
    IF matching = <<>> THEN <<>>
    ELSE InsertDescUnstable(SortUnstable(SubSeq(matching, 1, Len(matching) - 1)),
                            matching[Len(matching)])

RECURSIVE SortMatchingStable(_)
SortMatchingStable(matching) ==
    IF matching = <<>> THEN <<>>
    ELSE InsertDesc(SortMatchingStable(SubSeq(matching, 1, Len(matching) - 1)),
                    matching[Len(matching)])

\* matching.sort(key=lambda b: b.get("systemCount", 0), reverse=True)
SortMatching(matching) == SortMatchingStable(matching)

\* the number of example titles kept
ExampleLimit == 5

\* the sum taken over the examples only
TotalHoldingsOfExamples(matching) ==
    SumSeq(SystemCounts(Take(matching, ExampleLimit)))

\* sum(b.get("systemCount", 0) for b in matching)
TotalHoldings(matching) == SumSeq(SystemCounts(matching))

TitleOf(b) == b.title
Titles(books) == [i \in 1..Len(books) |-> TitleOf(books[i])]

build_theme_stats(books) ==
    [cat \in DOMAIN THEME_KEYWORDS |->
        LET matching == SortMatching(
                SelectSeq(books, LAMBDA b : cat \in categorize_book(b)))
        IN  [count             |-> Len(matching),
             examples          |-> Titles(Take(matching, ExampleLimit)),
             top_system_counts |-> SystemCounts(Take(matching, ExampleLimit)),
             total_holdings    |-> TotalHoldings(matching)]]

(***************************************************************************)
(* render_latex.py: build_context.                                         *)
(***************************************************************************)

\* load_json(name)
load_json(name) == data[name]

\* sep.join(parts)
RECURSIVE Join(_, _)
Join(sep, parts) ==
    IF parts = <<>> THEN <<>>
    ELSE IF Len(parts) = 1 THEN parts[1]
    ELSE parts[1] \o sep \o Join(sep, Tail(parts))

\* the characters of a title kept in topTitles
TopTitleChars == 30

\* the titles joined into topTitles
TopTitleCount == 3

TopTitlePart(b) == Take(b.title, TopTitleChars)
TopTitleParts(books) == [i \in 1..Len(books) |-> TopTitlePart(books[i])]

\* meta_map = {m["id"]: m for m in metadata}: a later entry replaces an earlier one
MetaMap(metadata) ==
    [id \in {metadata[i].id : i \in 1..Len(metadata)} |->
        metadata[CHOOSE i \in 1..Len(metadata) :
            /\ metadata[i].id = id
            /\ \A j \in (i + 1)..Len(metadata) : metadata[j].id # id]]

\* the loop body of "for sys in top_systems": the record with the five keys set
EnrichSystem(sys, meta_map, system_holdings) ==
    LET meta  == Get(meta_map, sys.systemId, NoData)
        sh    == Get(system_holdings, sys.systemId, NoData)
        books == Get(sh, "books", <<>>)
        added == [city      |-> Get(meta, "city", "None"),
                  region    |-> Get(meta, "region", ""),
                  vendor    |-> Get(meta, "vendor", "unknown"),
                  books     |-> books,
                  topTitles |-> Join(<<";", " ">>,
                                     TopTitleParts(Take(books, TopTitleCount)))]
    IN  [k \in DOMAIN sys \cup DOMAIN added |->
            IF k \in DOMAIN added THEN added[k] ELSE sys[k]]

\* the tier 2 test with the upper bound included
Tier2Inclusive(systems) ==
    SelectSeq(systems, LAMBDA s : 5 <= s.booksHeld /\ s.booksHeld <= 20)

\* tier1 = [s for s in top_systems if s["booksHeld"] >= 20]
Tier1(systems) == SelectSeq(systems, LAMBDA s : s.booksHeld >= 20)

\* tier2 = [s for s in top_systems if 5 <= s["booksHeld"] < 20]
Tier2(systems) == SelectSeq(systems, LAMBDA s : 5 <= s.booksHeld /\ s.booksHeld < 20)

\* tier3 = [s for s in top_systems if 1 <= s["booksHeld"] < 5]
Tier3(systems) == SelectSeq(systems, LAMBDA s : 1 <= s.booksHeld /\ s.booksHeld < 5)

\* round(num / den, 1) in tenths, for num >= 0 and den > 0.  The quotient is a
\* double: a value halfway between two tenths that a double holds exactly (it ends
\* in .25 or .75) goes to the even tenth; any other halfway value is stored a
\* little above or below and goes either way.
Round1(num, den) ==
    LET n == 10 * num
        q == n \div den
        r == n % den
    IN  IF 2 * r < den THEN {q}
        ELSE IF 2 * r > den THEN {q + 1}
        ELSE IF (4 * num) % den = 0 THEN {IF q % 2 = 0 THEN q ELSE q + 1}
        ELSE {q, q + 1}

\* the division evaluated whatever the denominator
FoundPctUnguarded(stats) ==
    IF stats.booksScanned = 0
    THEN {[value |-> 0, divided_by |-> <<0>>, raised |-> "ZeroDivisionError"]}
    ELSE {[value |-> v, divided_by |-> <<stats.booksScanned>>, raised |-> "none"] :
            v \in Round1(100 * stats.booksFound, stats.booksScanned)}

\* round(100 * stats["booksFound"] / stats["booksScanned"], 1)
\*     if stats["booksScanned"] > 0 else 0
\* the possible values, in tenths, each with the denominators divided by
FoundPct(stats) ==
    IF stats.booksScanned > 0
    THEN {[value |-> v, divided_by |-> <<stats.booksScanned>>, raised |-> "none"] :
            v \in Round1(100 * stats.booksFound, stats.booksScanned)}
    ELSE {[value |-> 0, divided_by |-> <<>>, raised |-> "none"]}

\* {**b, "systemCount": 0}
WithZeroCount(b) ==
    [k \in DOMAIN b \cup {"systemCount"} |-> IF k = "systemCount" THEN 0 ELSE b[k]]
WithZeroCounts(not_found) == [i \in 1..Len(not_found) |-> WithZeroCount(not_found[i])]

TotalCopiesOf(s) == s.totalCopies
BooksHeldOf(s) == s.booksHeld
TotalCopiesList(systems) == [i \in 1..Len(systems) |-> TotalCopiesOf(systems[i])]
BooksHeldList(systems) == [i \in 1..Len(systems) |-> BooksHeldOf(systems[i])]

DFW_REGIONS == {"Dallas County", "Tarrant County", "Collin County", "Denton County",
                "Ellis County", "Johnson County", "Rockwall County", "Kaufman County",
                "Wise County"}
HOUSTON_REGIONS == {"Harris County", "Fort Bend County", "Montgomery County",
                    "Galveston County", "Brazoria County"}
AUSTIN_REGIONS == {"Travis County", "Williamson County", "Hays County"}
SA_REGIONS == {"Bexar County"}

\* [s for s in top_systems if s.get("region", "") in regions]
InRegions(systems, regions) ==
    SelectSeq(systems, LAMBDA s : Get(s, "region", "") \in regions)

\* the systems counted in top5_copies
Top5 == 5

\* build_context's return value for one value of found_pct
ContextOf(stats, top_books, top_systems, not_found, found_pct) ==
    [stats           |-> stats,
     found_pct       |-> found_pct,
     top_book        |-> IF top_books # <<>> THEN top_books[1] ELSE NoData,
     top_system      |-> IF top_systems # <<>> THEN top_systems[1] ELSE NoData,
     top_books       |-> top_books,
     top_systems     |-> top_systems,
     tier1           |-> Tier1(top_systems),
     tier2           |-> Tier2(top_systems),
     tier3           |-> Tier3(top_systems),
     not_found       |-> not_found,
     themes          |-> build_theme_stats(top_books \o WithZeroCounts(not_found)),
     total_copies    |-> SumSeq(TotalCopiesList(top_systems)),
     dfw_systems     |-> InRegions(top_systems, DFW_REGIONS),
     houston_systems |-> InRegions(top_systems, HOUSTON_REGIONS),
     austin_systems  |-> InRegions(top_systems, AUSTIN_REGIONS),
     sa_systems      |-> InRegions(top_systems, SA_REGIONS),
     dfw_books       |-> SumSeq(BooksHeldList(InRegions(top_systems, DFW_REGIONS))),
     houston_books   |-> SumSeq(BooksHeldList(InRegions(top_systems, HOUSTON_REGIONS))),
     austin_books    |-> SumSeq(BooksHeldList(InRegions(top_systems, AUSTIN_REGIONS))),
     sa_books        |-> SumSeq(BooksHeldList(InRegions(top_systems, SA_REGIONS))),
     top5_copies     |-> SumSeq(TotalCopiesList(Take(top_systems, Top5)))]

\* context = build_context()
BuildContext ==
    /\ script = "render_latex"
    /\ pc = "build_context"
    /\ LET stats       == load_json("summary_stats.json")
           top_books   == load_json("top_books.json")
           listed      == load_json("top_systems.json")
           holdings    == load_json("system_holdings.json")
           not_found   == load_json("not_found_books.json")
           meta_map    == MetaMap(load_json("system_metadata.json"))
           top_systems == [i \in 1..Len(listed) |->
                              EnrichSystem(listed[i], meta_map, holdings)]
       IN  \E pct \in FoundPct(stats) :
            /\ loaded' = [n \in DOMAIN data |->
                            IF n = "top_systems.json" THEN top_systems ELSE load_json(n)]
            /\ divisions' = divisions \o pct.divided_by
            /\ IF pct.raised = "none"
               THEN /\ context' = ContextOf(stats, top_books, top_systems,
                                            not_found, pct.value)
                    /\ pc' = "render"
                    /\ UNCHANGED raised
               ELSE /\ raised' = pct.raised
                    /\ pc' = "crashed"
                    /\ UNCHANGED context
    /\ UNCHANGED <<script, data, events, figures, title, cats, first_cats,
                   all_books, theme_data>>

\* the most systems in top_systems.json when build_context runs
MaxCtxSystems == 3

\* the largest booksScanned taken from a range
MaxScanned == 3

HeldValues == {0, 1, 4, 5, 10, 19, 20, 30}

CtxSystem(i, held) ==
    [systemId |-> i, systemName |-> "System", booksHeld |-> held,
     totalCopies |-> held, totalAvailable |-> 0]

CtxSystemLists ==
    {[i \in 1..Len(h) |-> CtxSystem(i, h[i])] : h \in SeqsUpTo(HeldValues, MaxCtxSystems)}

CtxStats ==
    {[booksScanned |-> s, booksFound |-> f, booksNotFound |-> s - f] :
        s \in 0..MaxScanned, f \in 0..MaxScanned}
    \cup {[booksScanned |-> 16, booksFound |-> f, booksNotFound |-> 16 - f] :
            f \in {1, 3, 16}}
    \cup {[booksScanned |-> 1000, booksFound |-> 150, booksNotFound |-> 850],
          [booksScanned |-> 2000, booksFound |-> 3, booksNotFound |-> 1997]}

CtxMetadata ==
    <<[id |-> 1, city |-> "Austin", region |-> "Travis County", vendor |-> "koha",
       enabled |-> TRUE]>>

CtxHoldings ==
    1 :> [books |-> <<[title |-> <<"G", "a", "y">>], [title |-> <<"C", "a", "t", "s">>]>>]

InitContext ==
    /\ script = "render_latex"
    /\ pc = "build_context"
    /\ \E systems \in CtxSystemLists, stats \in CtxStats :
        /\ stats.booksFound <= stats.booksScanned
        /\ data = [n \in {"summary_stats.json", "top_books.json", "top_systems.json",
                       "system_holdings.json", "not_found_books.json",
                       "system_metadata.json"} |->
                CASE n = "summary_stats.json"   -> stats
                  [] n = "top_books.json"       ->
                        <<[title |-> <<"G", "a", "y">>, systemCount |-> 2]>>
                  [] n = "top_systems.json"     -> systems
                  [] n = "system_holdings.json" -> CtxHoldings
                  [] n = "not_found_books.json" -> <<[title |-> <<"b", "l", "m">>]>>
                  [] n = "system_metadata.json" -> CtxMetadata]
    /\ events = <<>>
    /\ figures = NoData
    /\ divisions = <<>>
    /\ raised = "none"
    /\ loaded = NoData
    /\ context = NoData
    /\ title = <<>>
    /\ cats = {}
    /\ first_cats = {}
    /\ all_books = <<>>
    /\ theme_data = NoData

NextContext == BuildContext

SpecContext == InitContext /\ [][NextContext]_vars

(***************************************************************************)
(* Helpers shared by generate_charts.py and generate_maps.py.              *)
(***************************************************************************)

\* the sequences of a sequence, one after another
RECURSIVE Concat(_)
Concat(words) == IF words = <<>> THEN <<>> ELSE Head(words) \o Concat(Tail(words))

\* list.reverse()
Reverse(seq) == [i \in 1..Len(seq) |-> seq[Len(seq) + 1 - i]]

\* sorted(seq, key=...) and list.sort(key=...): stable.  keys[i] is the key of
\* seq[i], a number kept as the fraction <<numerator, denominator>> with a positive
\* denominator.  An element goes behind those with a smaller key and behind the
\* earlier ones with an equal key.
StableSort(seq, keys) ==
    LET n == Len(seq)
        Before(i, j) == keys[i][1] * keys[j][2] < keys[j][1] * keys[i][2]
        place(i) == 1 + Cardinality({j \in 1..n :
                        \/ Before(j, i)
                        \/ (~Before(i, j) /\ j < i)})
    IN  [r \in 1..n |-> seq[CHOOSE i \in 1..n : place(i) = r]]

\* max(seq) of a non-empty sequence of integers
MaxOf(seq) == CHOOSE m \in Range(seq) : \A x \in Range(seq) : x <= m

\* str.replace(old, new): the occurrences of old from the left, not overlapping
RECURSIVE StrReplace(_, _, _)
StrReplace(text, old, new) ==
    IF Len(text) < Len(old) THEN text
    ELSE IF SubSeq(text, 1, Len(old)) = old
         THEN new \o StrReplace(SubSeq(text, Len(old) + 1, Len(text)), old, new)
         ELSE <<Head(text)>> \o StrReplace(Tail(text), old, new)

Ellipsis == <<".", ".", ".">>

\* what one chart or map function does to the process besides drawing: it opens a
\* figure, saves it under FIGURES_DIR, closes it and prints the file's name
Ev(op, fn, file) == [op |-> op, fn |-> fn, file |-> file]

Opened(fn) == <<Ev("subplots", fn, "")>>

SavedClosedPrinted(fn, file) ==
    <<Ev("savefig", fn, file), Ev("close", fn, ""), Ev("print", fn, file)>>

\* an exception leaves the function, and main, and ends the process
Raises(fn, exception) == <<Ev("raise", fn, exception)>>

\* the figure saved under file shows content
Show(file, content) ==
    [f \in DOMAIN figures \cup {file} |-> IF f = file THEN content ELSE figures[f]]

(***************************************************************************)
(* generate_charts.py                                                      *)
(***************************************************************************)

\* the records shown in the bar charts
TopN == 25

\* the character budget of a system name and of a book title
NameBudget == 40
TitleBudget == 45

\* n[:40] + "..." if len(n) > 40 else n
TruncateName(n) == IF Len(n) > NameBudget THEN Take(n, NameBudget) \o Ellipsis ELSE n
TruncateNames(names) == [i \in 1..Len(names) |-> TruncateName(names[i])]

\* b["title"][:45] + "..." if len(b["title"]) > 45 else b["title"]
TruncateTitle(t) == IF Len(t) > TitleBudget THEN Take(t, TitleBudget) \o Ellipsis ELSE t
TruncateTitles(titles) == [i \in 1..Len(titles) |-> TruncateTitle(titles[i])]

SystemNameOf(s) == s.systemName
SystemNames(systems) == [i \in 1..Len(systems) |-> SystemNameOf(systems[i])]

\* np.arange(0, stop, step) for integers stop > 0 and step > 0
Arange(stop, step) == [i \in 1..((stop + step - 1) \div step) |-> (i - 1) * step]

\* the bin widths of the two histograms
BooksBinWidth == 10
SystemsBinWidth == 5

VENDOR_COLORS ==
    [v \in {"apollo", "sirsi_dynix", "aspen_discovery", "atriuum", "tlc", "bibliocommons",
            "polaris", "koha", "spydus", "unknown"} |->
        CASE v = "apollo"          -> "#e74c3c"
          [] v = "sirsi_dynix"     -> "#3498db"
          [] v = "aspen_discovery" -> "#2ecc71"
          [] v = "atriuum"         -> "#9b59b6"
          [] v = "tlc"             -> "#f39c12"
          [] v = "bibliocommons"   -> "#1abc9c"
          [] v = "polaris"         -> "#e67e22"
          [] v = "koha"            -> "#34495e"
          [] v = "spydus"          -> "#95a5a6"
          [] v = "unknown"         -> "#bdc3c7"]

COLORS ==
    [c \in {"primary", "secondary", "accent", "warm", "found", "notfound"} |->
        CASE c = "primary"   -> "#2563eb"
          [] c = "secondary" -> "#7c3aed"
          [] c = "accent"    -> "#059669"
          [] c = "warm"      -> "#dc2626"
          [] c = "found"     -> "#2563eb"
          [] c = "notfound"  -> "#d1d5db"]

\* os.makedirs(FIGURES_DIR, exist_ok=True), first statement of both mains
Makedirs ==
    /\ script \in {"generate_charts", "generate_maps"}
    /\ pc = "makedirs"
    /\ events' = events \o <<Ev("makedirs", "main", "output/figures")>>
    /\ pc' = IF script = "generate_charts" THEN "chart1" ELSE "load_data"
    /\ UNCHANGED <<script, data, loaded, figures, divisions, raised, context,
                   title, cats, first_cats, all_books, theme_data>>

\* what every chart function leaves alone
ChartFrame ==
    UNCHANGED <<script, data, context, title, cats, first_cats, all_books, theme_data>>

\* the objects load_json has returned, as they are now: object is what the call
\* load_json(file) returned, after what its caller did to it
Holding(file, object) ==
    [f \in DOMAIN loaded \cup {file} |-> IF f = file THEN object ELSE loaded[f]]

chart1_top_systems_bar ==
    /\ script = "generate_charts"
    /\ pc = "chart1"
    /\ LET systems == Reverse(Take(load_json("top_systems.json"), TopN))
           names   == TruncateNames(SystemNames(systems))
           books   == BooksHeldList(systems)
       IN  figures' = Show("top_systems_bar.pdf", [names |-> names, bars |-> books])
    /\ events' = events \o Opened("chart1_top_systems_bar")
                        \o SavedClosedPrinted("chart1_top_systems_bar", "top_systems_bar.pdf")
    /\ pc' = "chart2"
    /\ UNCHANGED <<divisions, raised>>
    /\ loaded' = Holding("top_systems.json", load_json("top_systems.json"))
    /\ ChartFrame

chart2_top_books_bar ==
    /\ script = "generate_charts"
    /\ pc = "chart2"
    /\ LET books  == Reverse(Take(load_json("top_books.json"), TopN))
           titles == TruncateTitles(Titles(books))
           counts == [i \in 1..Len(books) |-> books[i].systemCount]
       IN  figures' = Show("top_books_bar.pdf", [names |-> titles, bars |-> counts])
    /\ events' = events \o Opened("chart2_top_books_bar")
                        \o SavedClosedPrinted("chart2_top_books_bar", "top_books_bar.pdf")
    /\ pc' = "chart3"
    /\ UNCHANGED <<divisions, raised>>
    /\ loaded' = Holding("top_books.json", load_json("top_books.json"))
    /\ ChartFrame

\* max(books_counts) raises ValueError on an empty list, after the figure is opened
chart3_books_per_system_hist ==
    /\ script = "generate_charts"
    /\ pc = "chart3"
    /\ LET books_counts == BooksHeldList(load_json("top_systems.json"))
       IN  IF books_counts = <<>>
           THEN /\ events' = events \o Opened("chart3_books_per_system_hist")
                                    \o Raises("chart3_books_per_system_hist", "ValueError")
                /\ raised' = "ValueError"
                /\ pc' = "crashed"
                /\ UNCHANGED figures
           ELSE /\ figures' = Show("books_per_system_hist.pdf",
                        [values |-> books_counts,
                         bins   |-> Arange(MaxOf(books_counts) + BooksBinWidth,
                                           BooksBinWidth)])
                /\ events' = events \o Opened("chart3_books_per_system_hist")
                                \o SavedClosedPrinted("chart3_books_per_system_hist",
                                                      "books_per_system_hist.pdf")
                /\ pc' = "chart4"
                /\ UNCHANGED raised
    /\ UNCHANGED divisions
    /\ loaded' = Holding("top_systems.json", load_json("top_systems.json"))
    /\ ChartFrame

chart4_systems_per_book_hist ==
    /\ script = "generate_charts"
    /\ pc = "chart4"
    /\ LET books         == load_json("top_books.json")
           system_counts == [i \in 1..Len(books) |-> books[i].systemCount]
           max_count     == IF system_counts # <<>> THEN MaxOf(system_counts) ELSE 1
       IN  figures' = Show("systems_per_book_hist.pdf",
                        [values |-> system_counts,
                         bins   |-> Arange(max_count + SystemsBinWidth, SystemsBinWidth)])
    /\ events' = events \o Opened("chart4_systems_per_book_hist")
                    \o SavedClosedPrinted("chart4_systems_per_book_hist",
                                          "systems_per_book_hist.pdf")
    /\ pc' = "chart5"
    /\ UNCHANGED <<divisions, raised>>
    /\ loaded' = Holding("top_books.json", load_json("top_books.json"))
    /\ ChartFrame

\* Counter(s["vendor"] for s in enabled).items(): each vendor with its count, in the
\* order the vendors first occur
VendorCounts(enabled) ==
    LET firsts == SelectSeq([i \in 1..Len(enabled) |-> i],
                    LAMBDA i : \A j \in 1..(i - 1) : enabled[j].vendor # enabled[i].vendor)
    IN  [k \in 1..Len(firsts) |->
            [vendor |-> enabled[firsts[k]].vendor,
             count  |-> Cardinality({j \in 1..Len(enabled) :
                            enabled[j].vendor = enabled[firsts[k]].vendor})]]

\* the vendors left in the order they were counted
VendorsAsCounted(vendor_counts) == vendor_counts

\* sorted(vendor_counts.items(), key=lambda x: -x[1])
SortedVendors(vendor_counts) ==
    StableSort(vendor_counts,
               [i \in 1..Len(vendor_counts) |-> <<-vendor_counts[i].count, 1>>])

chart5_vendor_breakdown ==
    /\ script = "generate_charts"
    /\ pc = "chart5"
    /\ LET metadata       == load_json("system_metadata.json")
           enabled        == SelectSeq(metadata, LAMBDA s : s.enabled)
           sorted_vendors == SortedVendors(VendorCounts(enabled))
       IN  figures' = Show("vendor_breakdown.pdf",
                [slices |-> [i \in 1..Len(sorted_vendors) |->
                    [vendor |-> sorted_vendors[i].vendor,
                     size   |-> sorted_vendors[i].count,
                     color  |-> Get(VENDOR_COLORS, sorted_vendors[i].vendor, "#bdc3c7")]]])
    /\ events' = events \o Opened("chart5_vendor_breakdown")
                    \o SavedClosedPrinted("chart5_vendor_breakdown", "vendor_breakdown.pdf")
    /\ pc' = "chart6"
    /\ UNCHANGED <<divisions, raised>>
    /\ loaded' = Holding("system_metadata.json", load_json("system_metadata.json"))
    /\ ChartFrame

\* the filter that lets a system without copies through
WithCopiesOrNone(systems) == SelectSeq(systems, LAMBDA s : s.totalCopies >= 0)

\* with_copies = [s for s in systems if s["totalCopies"] > 0]
WithCopies(systems) == SelectSeq(systems, LAMBDA s : s.totalCopies > 0)

\* s["availRate"] = s["totalAvailable"] / s["totalCopies"]: the record with the key
\* set, the rate kept as the pair divided
WithAvailRate(s) ==
    [k \in DOMAIN s \cup {"availRate"} |->
        IF k = "availRate" THEN <<s.totalAvailable, s.totalCopies>> ELSE s[k]]
WithAvailRates(systems) == [i \in 1..Len(systems) |-> WithAvailRate(systems[i])]

AvailRateOf(s) == s.availRate
AvailRates(systems) == [i \in 1..Len(systems) |-> AvailRateOf(systems[i])]

\* s["systemName"][:40]
ClipName(s) == Take(s.systemName, NameBudget)
ClipNames(systems) == [i \in 1..Len(systems) |-> ClipName(systems[i])]

\* the loaded list after "for s in with_copies: s["availRate"] = ...": with_copies
\* holds the very records of systems, so the key is set on those records
WithAvailRateSet(systems, with_copies) ==
    [i \in 1..Len(systems) |->
        IF InSeq(systems[i], with_copies) THEN WithAvailRate(systems[i]) ELSE systems[i]]

chart6_availability_bar ==
    /\ script = "generate_charts"
    /\ pc = "chart6"
    /\ LET systems     == load_json("top_systems.json")
           with_copies == WithCopies(systems)
           divided_by  == TotalCopiesList(with_copies)
           rated       == WithAvailRates(with_copies)
           by_held     == Take(StableSort(rated,
                                [i \in 1..Len(rated) |-> <<-rated[i].booksHeld, 1>>]),
                              TopN)
           top         == StableSort(by_held, AvailRates(by_held))
       IN  IF \E i \in 1..Len(divided_by) : divided_by[i] = 0
           THEN \* ZeroDivisionError in the loop, before the figure is opened
                /\ divisions' = divisions \o
                        Take(divided_by, CHOOSE i \in 1..Len(divided_by) :
                                /\ divided_by[i] = 0
                                /\ \A j \in 1..(i - 1) : divided_by[j] # 0)
                /\ events' = events \o Raises("chart6_availability_bar", "ZeroDivisionError")
                /\ raised' = "ZeroDivisionError"
                /\ pc' = "crashed"
                /\ loaded' = Holding("top_systems.json",
                        WithAvailRateSet(systems, Take(with_copies,
                            (CHOOSE i \in 1..Len(divided_by) :
                                /\ divided_by[i] = 0
                                /\ \A j \in 1..(i - 1) : divided_by[j] # 0) - 1)))
                /\ UNCHANGED figures
           ELSE /\ divisions' = divisions \o divided_by
                /\ loaded' = Holding("top_systems.json",
                                     WithAvailRateSet(systems, with_copies))
                /\ figures' = Show("availability_bar.pdf",
                        [names |-> ClipNames(top),
                         bars  |-> AvailRates(top)])
                /\ events' = events \o Opened("chart6_availability_bar")
                        \o SavedClosedPrinted("chart6_availability_bar",
                                              "availability_bar.pdf")
                /\ pc' = "chart7"
                /\ UNCHANGED raised
    /\ ChartFrame

chart7_found_vs_notfound ==
    /\ script = "generate_charts"
    /\ pc = "chart7"
    /\ LET stats == load_json("summary_stats.json")
       IN  figures' = Show("found_vs_notfound.pdf",
                [slices |-> <<[vendor |-> "Found", size |-> stats.booksFound,
                               color |-> COLORS["found"]],
                              [vendor |-> "Not found", size |-> stats.booksNotFound,
                               color |-> COLORS["notfound"]]>>])
    /\ events' = events \o Opened("chart7_found_vs_notfound")
                    \o SavedClosedPrinted("chart7_found_vs_notfound", "found_vs_notfound.pdf")
    /\ pc' = "chart8"
    /\ UNCHANGED <<divisions, raised>>
    /\ loaded' = Holding("summary_stats.json", load_json("summary_stats.json"))
    /\ ChartFrame

\* the systems labelled in the scatter plot and the characters of a label
LabelledOutliers == 5
OutlierLabelChars == 25

PublicLibrary == <<" ", "P", "u", "b", "l", "i", "c", " ", "L", "i", "b", "r", "a", "r", "y">>
LibrarySystem == <<" ", "L", "i", "b", "r", "a", "r", "y", " ", "S", "y", "s", "t", "e", "m">>

\* name.replace(" Public Library", "").replace(" Library System", "")
StripSuffixes(name) == StrReplace(StrReplace(name, PublicLibrary, <<>>), LibrarySystem, <<>>)

chart8_copies_scatter ==
    /\ script = "generate_charts"
    /\ pc = "chart8"
    /\ LET systems       == load_json("top_systems.json")
           top_by_copies == Take(StableSort(systems,
                                [i \in 1..Len(systems) |-> <<-systems[i].totalCopies, 1>>]),
                                LabelledOutliers)
       IN  figures' = Show("copies_scatter.pdf",
                [points |-> [i \in 1..Len(systems) |->
                                <<systems[i].booksHeld, systems[i].totalCopies>>],
                 labels |-> [i \in 1..Len(top_by_copies) |->
                                [text |-> Take(StripSuffixes(top_by_copies[i].systemName),
                                               OutlierLabelChars),
                                 at   |-> <<top_by_copies[i].booksHeld,
                                            top_by_copies[i].totalCopies>>]]])
    /\ events' = events \o Opened("chart8_copies_scatter")
                    \o SavedClosedPrinted("chart8_copies_scatter", "copies_scatter.pdf")
    /\ pc' = "done"
    /\ UNCHANGED <<divisions, raised>>
    /\ loaded' = Holding("top_systems.json", load_json("top_systems.json"))
    /\ ChartFrame

\* generate_charts.main after makedirs: the eight charts in order
ChartsMain ==
    \/ chart1_top_systems_bar
    \/ chart2_top_books_bar
    \/ chart3_books_per_system_hist
    \/ chart4_systems_per_book_hist
    \/ chart5_vendor_breakdown
    \/ chart6_availability_bar
    \/ chart7_found_vs_notfound
    \/ chart8_copies_scatter

(***************************************************************************)
(* generate_maps.py                                                        *)
(***************************************************************************)

\* JSON null is the empty sequence and a number v is <<v>>
None == <<>>

\* the bounding boxes, in tenths of a degree
DFW_BOUNDS == [lon |-> <<-978, -963>>, lat |-> <<323, 334>>]
HOUSTON_BOUNDS == [lon |-> <<-960, -948>>, lat |-> <<292, 302>>]

\* libraries, counties = load_data()
load_data ==
    /\ script = "generate_maps"
    /\ pc = "load_data"
    /\ loaded' = [libraries |-> data["geocoded_libraries.json"],
                  counties  |-> data["tx_counties.geojson"]]
    /\ pc' = "fig1"
    /\ UNCHANGED <<script, data, events, figures, divisions, raised, context,
                   title, cats, first_cats, all_books, theme_data>>

\* the positions of a list
Indices(seq) == [i \in 1..Len(seq) |-> i]

\* the polygons drawn for a feature: one for a Polygon, every part of a MultiPolygon
PolygonsOf(feature) ==
    IF feature.geometry.type = "Polygon" THEN 1
    ELSE IF feature.geometry.type = "MultiPolygon" THEN feature.geometry.parts
    ELSE 0

\* county_patches: one patch per polygon, here the feature it belongs to
county_patches(counties_geojson) ==
    Concat([f \in 1..Len(counties_geojson.features) |->
                [k \in 1..PolygonsOf(counties_geojson.features[f]) |-> f]])

\* [lib for lib in libraries if lib["enabled"] and lib["lat"] is not None], as the
\* positions of those libraries
EnabledWithoutCoordinateTest(libraries) ==
    SelectSeq(Indices(libraries), LAMBDA i : libraries[i].enabled)

EnabledWithCoordinate(libraries) ==
    SelectSeq(Indices(libraries),
              LAMBDA i : libraries[i].enabled /\ libraries[i].lat # None)

\* what every map function leaves alone
MapFrame ==
    UNCHANGED <<script, data, loaded, context, title, cats, first_cats,
                all_books, theme_data>>

fig1_overview_map ==
    /\ script = "generate_maps"
    /\ pc = "fig1"
    /\ LET libraries    == loaded.libraries
           enabled      == EnabledWithCoordinate(libraries)
           has_holdings == SelectSeq(enabled, LAMBDA i : libraries[i].booksHeld > 0)
           no_holdings  == SelectSeq(enabled, LAMBDA i : libraries[i].booksHeld = 0)
           books        == [k \in 1..Len(has_holdings) |-> libraries[has_holdings[k]].booksHeld]
       IN  figures' = Show("texas_overview_map.pdf",
                [base   |-> county_patches(loaded.counties),
                 hollow |-> no_holdings,
                 filled |-> has_holdings,
                 vmax   |-> IF has_holdings # <<>> THEN <<MaxOf(books)>> ELSE None])
    /\ events' = events \o Opened("fig1_overview_map")
                    \o SavedClosedPrinted("fig1_overview_map", "texas_overview_map.pdf")
    /\ pc' = "fig2"
    /\ UNCHANGED <<divisions, raised>>
    /\ MapFrame

\* county_books: the booksHeld of the enabled libraries that hold books, summed by
\* region
CountyBooks(libraries) ==
    LET counted == SelectSeq(libraries, LAMBDA lib : lib.enabled /\ lib.booksHeld > 0)
    IN  [county \in {counted[i].region : i \in 1..Len(counted)} |->
            SumSeq(BooksHeldList(SelectSeq(counted, LAMBDA lib : lib.region = county)))]

NameKeys == <<"NAME", "NAMELSAD", "name">>

\* the value under the first of NAME, NAMELSAD, name among the feature's
\* properties, None without any
CountyName(feature) ==
    LET properties == Get(feature, "properties", NoData)
        present    == SelectSeq(NameKeys, LAMBDA key : key \in DOMAIN properties)
    IN  IF present = <<>> THEN None ELSE <<properties[present[1]]>>

\* the lookup that tries the bare name only
LookupBare(county_books, county_name) == Get(county_books, county_name, 0)

\* books = county_books.get(f"{county_name} County", 0)
\* if books == 0: books = county_books.get(county_name, 0)
LookupBooks(county_books, county_name) ==
    LET books == Get(county_books, county_name \o " County", 0)
    IN  IF books = 0 THEN Get(county_books, county_name, 0) ELSE books

\* books for one feature: 0 without a county name (None or empty)
FeatureBooks(county_books, feature) ==
    LET county_name == CountyName(feature)
    IN  IF county_name # None /\ county_name[1] # ""
        THEN LookupBooks(county_books, county_name[1])
        ELSE 0

\* color = cmap(norm(books)) if books > 0 else "#f0f0f0"
FillOf(books, max_books) ==
    IF books > 0 THEN [color |-> "Blues", value |-> books, vmax |-> max_books]
    ELSE [color |-> "#f0f0f0", value |-> 0, vmax |-> 0]

fig2_coverage_choropleth ==
    /\ script = "generate_maps"
    /\ pc = "fig2"
    /\ LET county_books == CountyBooks(loaded.libraries)
           totals       == {county_books[c] : c \in DOMAIN county_books}
           max_books    == IF county_books # NoData
                           THEN CHOOSE m \in totals : \A x \in totals : x <= m
                           ELSE 1
           features     == loaded.counties.features
       IN  figures' = Show("texas_coverage_choropleth.pdf",
                [county_books |-> county_books,
                 patches |-> Concat([f \in 1..Len(features) |->
                    [k \in 1..PolygonsOf(features[f]) |->
                        [feature |-> f,
                         fill    |-> FillOf(FeatureBooks(county_books, features[f]),
                                            max_books)]]])])
    /\ events' = events \o Opened("fig2_coverage_choropleth")
                    \o SavedClosedPrinted("fig2_coverage_choropleth",
                                          "texas_coverage_choropleth.pdf")
    /\ pc' = "inset_dfw"
    /\ UNCHANGED <<divisions, raised>>
    /\ MapFrame

\* the window without its edges
InBoundsExclusive(libraries, bounds) ==
    SelectSeq(Indices(libraries), LAMBDA i :
        /\ libraries[i].enabled
        /\ libraries[i].lat # None
        /\ bounds.lat[1] < libraries[i].lat[1] /\ libraries[i].lat[1] < bounds.lat[2]
        /\ bounds.lon[1] < libraries[i].lng[1] /\ libraries[i].lng[1] < bounds.lon[2])

\* the libraries plotted in an inset map
InBounds(libraries, bounds) ==
    SelectSeq(Indices(libraries), LAMBDA i :
        /\ libraries[i].enabled
        /\ libraries[i].lat # None
        /\ bounds.lat[1] <= libraries[i].lat[1] /\ libraries[i].lat[1] <= bounds.lat[2]
        /\ bounds.lon[1] <= libraries[i].lng[1] /\ libraries[i].lng[1] <= bounds.lon[2])

\* the plotted libraries that get a text label
Labelled(libraries, has_holdings, label_threshold) ==
    SelectSeq(has_holdings, LAMBDA i : libraries[i].booksHeld >= label_threshold)

fig_inset_map(bounds, fig_title, filename, label_threshold, here, next) ==
    /\ script = "generate_maps"
    /\ pc = here
    /\ LET libraries    == loaded.libraries
           in_bounds    == InBounds(libraries, bounds)
           has_holdings == SelectSeq(in_bounds, LAMBDA i : libraries[i].booksHeld > 0)
           no_holdings  == SelectSeq(in_bounds, LAMBDA i : libraries[i].booksHeld = 0)
           labelled     == Labelled(libraries, has_holdings, label_threshold)
       IN  figures' = Show(filename,
                [base   |-> county_patches(loaded.counties),
                 title  |-> fig_title,
                 hollow |-> no_holdings,
                 filled |-> has_holdings,
                 labels |-> [k \in 1..Len(labelled) |->
                                [lib  |-> labelled[k],
                                 text |-> StripSuffixes(libraries[labelled[k]].name)]]])
    /\ events' = events \o Opened("fig_inset_map")
                    \o SavedClosedPrinted("fig_inset_map", filename)
    /\ pc' = next
    /\ UNCHANGED <<divisions, raised>>
    /\ MapFrame

\* the label_threshold main passes for both insets
MainLabelThreshold == 15

\* the availability filter that lets a library without copies through
MapWithCopiesOrNone(libraries) ==
    SelectSeq(Indices(libraries), LAMBDA i :
        libraries[i].enabled /\ libraries[i].lat # None /\ libraries[i].totalCopies >= 0)

\* [lib for lib in libraries
\*  if lib["enabled"] and lib["lat"] is not None and lib["totalCopies"] > 0]
MapWithCopies(libraries) ==
    SelectSeq(Indices(libraries), LAMBDA i :
        libraries[i].enabled /\ libraries[i].lat # None /\ libraries[i].totalCopies > 0)

fig5_availability_map ==
    /\ script = "generate_maps"
    /\ pc = "fig5"
    /\ LET libraries   == loaded.libraries
           with_copies == MapWithCopies(libraries)
           divided_by  == [k \in 1..Len(with_copies) |-> libraries[with_copies[k]].totalCopies]
           rates       == [k \in 1..Len(with_copies) |->
                            <<libraries[with_copies[k]].totalAvailable,
                              libraries[with_copies[k]].totalCopies>>]
       IN  IF \E k \in 1..Len(divided_by) : divided_by[k] = 0
           THEN \* ZeroDivisionError in the list of rates, with the figure open
                /\ divisions' = divisions \o
                        Take(divided_by, CHOOSE k \in 1..Len(divided_by) :
                                /\ divided_by[k] = 0
                                /\ \A j \in 1..(k - 1) : divided_by[j] # 0)
                /\ events' = events \o Opened("fig5_availability_map")
                                \o Raises("fig5_availability_map", "ZeroDivisionError")
                /\ raised' = "ZeroDivisionError"
                /\ pc' = "crashed"
                /\ UNCHANGED figures
           ELSE /\ divisions' = divisions \o divided_by
                /\ figures' = Show("texas_availability_map.pdf",
                        [base   |-> county_patches(loaded.counties),
                         points |-> with_copies,
                         rates  |-> rates])
                /\ events' = events \o Opened("fig5_availability_map")
                        \o SavedClosedPrinted("fig5_availability_map",
                                              "texas_availability_map.pdf")
                /\ pc' = "done"
                /\ UNCHANGED raised
    /\ MapFrame

\* generate_maps.main after makedirs
MapsMain ==
    \/ load_data
    \/ fig1_overview_map
    \/ fig2_coverage_choropleth
    \/ fig_inset_map(DFW_BOUNDS, "Dallas-Fort Worth Metroplex", "dfw_inset_map.pdf",
                     MainLabelThreshold, "inset_dfw", "inset_houston")
    \/ fig_inset_map(HOUSTON_BOUNDS, "Houston Metro Area", "houston_inset_map.pdf",
                     MainLabelThreshold, "inset_houston", "fig5")
    \/ fig5_availability_map

(***************************************************************************)
(* The two figure programs on their input documents.                       *)
(***************************************************************************)

\* the most records in top_systems.json, top_books.json and system_metadata.json
\* when the charts are drawn
MaxSystems == 2
MaxTopBooks == 1
MaxMetadata == 3

\* the most records in the three files together
MaxRecords == 4

\* the most libraries and county features when the maps are drawn
MaxLibraries == 2
MaxFeatures == 2

ChartSystemPool ==
    {[systemId |-> 1, systemName |-> <<"A", "u", "s", "t", "i", "n", " ", "P", "u", "b", "l", "i", "c", " ", "L", "i", "b", "r", "a", "r", "y">>,
      booksHeld |-> 30, totalCopies |-> 4, totalAvailable |-> 1],
     [systemId |-> 2, systemName |-> <<"W", "a", "c", "o", " ", "L", "i", "b", "r", "a", "r", "y", " ", "S", "y", "s", "t", "e", "m">>,
      booksHeld |-> 10, totalCopies |-> 0, totalAvailable |-> 0],
     \* a name of 51 characters
     [systemId |-> 3, systemName |-> <<"A", "l", "p", "i", "n", "e", " ", "P", "u", "b", "l", "i", "c", " ", "L", "i", "b", "r", "a", "r", "y", " ", "a", "n", "d", " ", "B", "i", "g", " ", "B", "e", "n", "d", " ", "R", "e", "g", "i", "o", "n", "a", "l", " ", "A", "r", "c", "h", "i", "v", "e">>,
      booksHeld |-> 0, totalCopies |-> 2, totalAvailable |-> 2]}

ChartBookPool ==
    {\* a title of 49 characters
     [title |-> <<"T", "h", "e", " ", "C", "o", "m", "p", "l", "e", "t", "e", " ", "I", "l", "l", "u", "s", "t", "r", "a", "t", "e", "d", " ", "H", "i", "s", "t", "o", "r", "y", " ", "o", "f", " ", "C", "a", "t", "s", " ", "i", "n", " ", "T", "e", "x", "a", "s">>, systemCount |-> 7],
     [title |-> <<"C", "a", "t", "s">>, systemCount |-> 0]}

ChartMetadataPool ==
    {[id |-> 1, city |-> "Austin", region |-> "Travis County", vendor |-> "koha",
      enabled |-> TRUE],
     [id |-> 2, city |-> "Waco", region |-> "McLennan County", vendor |-> "apollo",
      enabled |-> FALSE],
     \* a vendor VENDOR_COLORS does not list
     [id |-> 3, city |-> "Alpine", region |-> "Brewster County", vendor |-> "evergreen",
      enabled |-> TRUE]}

\* summary_stats.json with more books found than not found, and the reverse
ChartStats ==
    {[booksScanned |-> 4, booksFound |-> 3, booksNotFound |-> 1],
     [booksScanned |-> 4, booksFound |-> 1, booksNotFound |-> 3]}

LibraryPool ==
    {[name |-> <<"D", "a", "l", "l", "a", "s", " ", "P", "u", "b", "l", "i", "c", " ", "L", "i", "b", "r", "a", "r", "y">>, enabled |-> TRUE,
      lat |-> <<328>>, lng |-> <<-968>>, region |-> "Dallas County",
      booksHeld |-> 20, totalCopies |-> 4, totalAvailable |-> 1],
     [name |-> <<"A", "u", "s", "t", "i", "n", " ", "P", "u", "b", "l", "i", "c", " ", "L", "i", "b", "r", "a", "r", "y">>, enabled |-> TRUE,
      lat |-> None, lng |-> None, region |-> "Travis County",
      booksHeld |-> 3, totalCopies |-> 2, totalAvailable |-> 2],
     [name |-> <<"H", "a", "r", "r", "i", "s", " ", "L", "i", "b", "r", "a", "r", "y", " ", "S", "y", "s", "t", "e", "m">>, enabled |-> TRUE,
      lat |-> <<297>>, lng |-> <<-954>>, region |-> "Harris County",
      booksHeld |-> 0, totalCopies |-> 0, totalAvailable |-> 0],
     [name |-> <<"I", "r", "v", "i", "n", "g">>, enabled |-> FALSE,
      lat |-> <<328>>, lng |-> <<-969>>, region |-> "Dallas County",
      booksHeld |-> 5, totalCopies |-> 1, totalAvailable |-> 0],
     [name |-> <<"L", "a", "k", "e", "w", "a", "y">>, enabled |-> TRUE,
      lat |-> <<303>>, lng |-> <<-979>>, region |-> "Travis",
      booksHeld |-> 15, totalCopies |-> 0, totalAvailable |-> 0],
     [name |-> <<"W", "e", "a", "t", "h", "e", "r", "f", "o", "r", "d">>, enabled |-> TRUE,
      lat |-> <<323>>, lng |-> <<-978>>, region |-> "Parker County",
      booksHeld |-> 15, totalCopies |-> 3, totalAvailable |-> 0]}

Polygon == [type |-> "Polygon", parts |-> 1]
MultiPolygon == [type |-> "MultiPolygon", parts |-> 2]

FeaturePool ==
    {[type |-> "Feature", geometry |-> Polygon,
      properties |-> [NAME |-> "Travis"]],
     [type |-> "Feature", geometry |-> Polygon,
      properties |-> [NAMELSAD |-> "Travis County"]],
     [type |-> "Feature", geometry |-> MultiPolygon,
      properties |-> [NAME |-> "Dallas", NAMELSAD |-> "Dallas County"]],
     [type |-> "Feature", geometry |-> Polygon,
      properties |-> [NAME |-> "", NAMELSAD |-> "Travis County"]],
     [type |-> "Feature", geometry |-> Polygon,
      properties |-> [GEOID |-> "48029"]],
     [type |-> "Feature", geometry |-> Polygon]}

Init ==
    /\ script \in {"generate_charts", "generate_maps"}
    /\ pc = "makedirs"
    /\ \/ /\ script = "generate_charts"
          /\ \E systems \in SeqsUpTo(ChartSystemPool, MaxSystems),
                books \in SeqsUpTo(ChartBookPool, MaxTopBooks),
                metadata \in SeqsUpTo(ChartMetadataPool, MaxMetadata),
                stats \in ChartStats :
             /\ Len(systems) + Len(books) + Len(metadata) <= MaxRecords
             /\ data = [n \in {"top_systems.json", "top_books.json",
                             "system_metadata.json", "summary_stats.json"} |->
                      CASE n = "top_systems.json"     -> systems
                        [] n = "top_books.json"       -> books
                        [] n = "system_metadata.json" -> metadata
                        [] n = "summary_stats.json"   -> stats]
       \/ /\ script = "generate_maps"
          /\ \E libraries \in SeqsUpTo(LibraryPool, MaxLibraries),
                features \in SeqsUpTo(FeaturePool, MaxFeatures) :
                data = [n \in {"geocoded_libraries.json", "tx_counties.geojson"} |->
                        CASE n = "geocoded_libraries.json" -> libraries
                          [] n = "tx_counties.geojson"     ->
                                [type |-> "FeatureCollection", features |-> features]]
    /\ events = <<>>
    /\ figures = NoData
    /\ divisions = <<>>
    /\ raised = "none"
    /\ loaded = NoData
    /\ context = NoData
    /\ title = <<>>
    /\ cats = {}
    /\ first_cats = {}
    /\ all_books = <<>>
    /\ theme_data = NoData

Next == Makedirs \/ ChartsMain \/ MapsMain

Spec == Init /\ [][Next]_vars

(***************************************************************************)
(* fig_inset_map called with a window and a label threshold of the         *)
(* caller's choice.                                                        *)
(***************************************************************************)

\* label thresholds: none, the least holding, main's 15 and its neighbour, the
\* default 30
LabelThresholds == {0, 1, 15, 16, 30}

InsetWindows == {DFW_BOUNDS, HOUSTON_BOUNDS}

InitInset ==
    /\ script = "generate_maps"
    /\ pc = "load_data"
    /\ \E libraries \in SeqsUpTo(LibraryPool, MaxLibraries),
          bounds \in InsetWindows,
          label_threshold \in LabelThresholds :
            data = [n \in {"geocoded_libraries.json", "tx_counties.geojson",
                           "bounds", "label_threshold"} |->
                    CASE n = "geocoded_libraries.json" -> libraries
                      [] n = "tx_counties.geojson"     ->
                            [type |-> "FeatureCollection", features |-> <<>>]
                      [] n = "bounds"                  -> bounds
                      [] n = "label_threshold"         -> label_threshold]
    /\ events = <<>>
    /\ figures = NoData
    /\ divisions = <<>>
    /\ raised = "none"
    /\ loaded = NoData
    /\ context = NoData
    /\ title = <<>>
    /\ cats = {}
    /\ first_cats = {}
    /\ all_books = <<>>
    /\ theme_data = NoData

\* fig_inset_map(libraries, counties, bounds, "Inset", "inset_map.pdf", label_threshold)
InsetCall ==
    fig_inset_map(data["bounds"], "Inset", "inset_map.pdf", data["label_threshold"],
                  "fig1", "returned")

NextInset == load_data \/ InsetCall

SpecInset == InitInset /\ [][NextInset]_vars

(***************************************************************************)
(* truncate_text applied to a text and a length.                           *)
(***************************************************************************)

\* text[:stop]: the first stop characters, or all but the last -stop of them when
\* stop is negative
SliceTo(text, stop) ==
    IF stop >= 0 THEN Take(text, stop)
    ELSE IF Len(text) + stop > 0 THEN SubSeq(text, 1, Len(text) + stop)
    ELSE <<>>

truncate_text(text, max_len) ==
    IF text = <<>> THEN <<>>
    ELSE IF Len(text) <= max_len THEN text
    ELSE SliceTo(text, max_len - 3) \o Ellipsis

\* the longest text and the largest max_len truncate_text is called with
MaxTextLen == 5
MaxLenArg == 6

InitTruncate ==
    /\ script = "truncate_text"
    /\ pc = "call"
    /\ title \in SeqsUpTo({"a", "b"}, MaxTextLen)
    /\ \E max_len \in 0..MaxLenArg : data = [n \in {"max_len"} |-> max_len]
    /\ events = <<>>
    /\ figures = NoData
    /\ divisions = <<>>
    /\ raised = "none"
    /\ loaded = NoData
    /\ context = NoData
    /\ cats = {}
    /\ first_cats = {}
    /\ all_books = <<>>
    /\ theme_data = NoData

\* result = truncate_text(text, max_len)
TruncateText ==
    /\ script = "truncate_text"
    /\ pc = "call"
    /\ context' = [n \in {"result"} |-> truncate_text(title, data["max_len"])]
    /\ pc' = "returned"
    /\ UNCHANGED <<script, data, events, figures, divisions, raised, loaded,
                   title, cats, first_cats, all_books, theme_data>>

NextTruncate == TruncateText

SpecTruncate == InitTruncate /\ [][NextTruncate]_vars

(***************************************************************************)
(* categorize_book applied to a title and to its re-casings.               *)
(***************************************************************************)

\* the most words a title is made of
MaxWords == 2

TitleWords == {<<"G", "a", "y">>, <<"b", "l", "m">>,
               <<"s", ".", "e", ".", "x", ".">>, <<"C", "a", "t">>}

ClassifyTitles == {Concat(ws) : ws \in SeqsUpTo(TitleWords, MaxWords)}

IsUpper(c) == \E i \in 1..Len(UpperCase) : UpperCase[i] = c
IsLower(c) == \E i \in 1..Len(LowerCase) : LowerCase[i] = c

\* the same letter in the other case
SwapCase(c) ==
    IF IsUpper(c) THEN LowerCase[CHOOSE i \in 1..Len(UpperCase) : UpperCase[i] = c]
    ELSE IF IsLower(c) THEN UpperCase[CHOOSE i \in 1..Len(LowerCase) : LowerCase[i] = c]
    ELSE c

Idle ==
    /\ data = NoData
    /\ events = <<>>
    /\ figures = NoData
    /\ divisions = <<>>
    /\ raised = "none"
    /\ loaded = NoData
    /\ context = NoData

InitClassify ==
    /\ script = "categorize_book"
    /\ pc = "first"
    /\ title \in ClassifyTitles
    /\ cats = {}
    /\ first_cats = {}
    /\ all_books = <<>>
    /\ theme_data = NoData
    /\ Idle

\* cats = categorize_book({"title": title})
CategorizeBook ==
    /\ script = "categorize_book"
    /\ pc \in {"first", "call"}
    /\ cats' = categorize_book([title |-> title])
    /\ first_cats' = IF pc = "first" THEN cats' ELSE first_cats
    /\ pc' = "returned"
    /\ UNCHANGED <<script, data, events, figures, divisions, raised, loaded, context,
                   title, all_books, theme_data>>

\* the caller passes the title with one letter in the other case
Recase ==
    /\ script = "categorize_book"
    /\ pc = "returned"
    /\ \E i \in 1..Len(title) :
        /\ IsUpper(title[i]) \/ IsLower(title[i])
        /\ title' = [title EXCEPT ![i] = SwapCase(title[i])]
    /\ pc' = "call"
    /\ UNCHANGED <<script, data, events, figures, divisions, raised, loaded, context,
                   cats, first_cats, all_books, theme_data>>

NextClassify == CategorizeBook \/ Recase

SpecClassify == InitClassify /\ [][NextClassify]_vars

(***************************************************************************)
(* build_theme_stats applied to a list of books.                           *)
(***************************************************************************)

\* the most books in the list
MaxBooks == 6

ThemeBookPool ==
    {[title |-> <<"G", "a", "y">>, systemCount |-> 1],
     [title |-> <<"G", "e", "n", "d", "e", "r", "Q", "u", "e", "e", "r">>, systemCount |-> 1],
     [title |-> <<"C", "a", "t", "s">>, systemCount |-> 3],
     [title |-> <<"g", "a", "y">>]}

InitThemes ==
    /\ script = "build_theme_stats"
    /\ pc = "call"
    /\ all_books \in SeqsUpTo(ThemeBookPool, MaxBooks)
    /\ theme_data = NoData
    /\ title = <<>>
    /\ cats = {}
    /\ first_cats = {}
    /\ Idle

\* theme_data = build_theme_stats(all_books)
BuildThemeStats ==
    /\ script = "build_theme_stats"
    /\ pc = "call"
    /\ theme_data' = build_theme_stats(all_books)
    /\ pc' = "returned"
    /\ UNCHANGED <<script, data, events, figures, divisions, raised, loaded, context,
                   title, cats, first_cats, all_books>>

NextThemes == BuildThemeStats

SpecThemes == InitThemes /\ [][NextThemes]_vars

(***************************************************************************)
(* Claims about the classifier.                                            *)
(***************************************************************************)

\* kw occurs in text at some offset when both are compared letter by letter
\* without regard to case
OccursIgnoringCase(kw, text) ==
    \E off \in 0..(Len(text) - Len(kw)) :
        \A k \in 1..Len(kw) : LowerChar(text[off + k]) = kw[k]

\* C2: categorize_book is case-insensitive: whatever letters of a title are
\* switched between upper and lower case, it returns the set of categories it
\* returned for the title first given, and a category is in that set exactly
\* when one of its keywords is a substring of the lower-cased title.
C2_CaseInsensitive ==
    (script = "categorize_book" /\ pc = "returned") =>
        /\ cats = first_cats
        /\ \A cat \in DOMAIN THEME_KEYWORDS :
            cat \in cats <=>
                \E k \in 1..Len(THEME_KEYWORDS[cat]) :
                    OccursIgnoringCase(THEME_KEYWORDS[cat][k], title)

\* a title of two categories, re-cased to all capitals, has been categorized
C2_Witness ==
    /\ script = "categorize_book"
    /\ pc = "returned"
    /\ Cardinality(cats) = 2
    /\ \A i \in 1..Len(title) : ~IsLower(title[i])

\* the positions of the books of all_books that belong to cat
MatchIdx(cat) == {i \in 1..Len(all_books) : cat \in categorize_book(all_books[i])}

CountAt(i) == IF "systemCount" \in DOMAIN all_books[i] THEN all_books[i].systemCount ELSE 0

\* the place of book i among the matches M: behind every match with a larger
\* systemCount and every earlier match with the same systemCount
RankIn(M, i) ==
    1 + Cardinality({j \in M :
            CountAt(j) > CountAt(i) \/ (CountAt(j) = CountAt(i) /\ j < i)})

RECURSIVE SumCounts(_)
SumCounts(idx) ==
    IF idx = {} THEN 0
    ELSE LET i == CHOOSE j \in idx : TRUE IN CountAt(i) + SumCounts(idx \ {i})

\* C3: for every category, examples holds at most 5 titles, those of the first
\* min(5, matches) matching books by descending systemCount with equal counts in
\* input order, and top_system_counts holds the same books' systemCount.
C3_ExamplesTopFiveStable ==
    (script = "build_theme_stats" /\ pc = "returned") =>
        \A cat \in DOMAIN THEME_KEYWORDS :
            LET st == theme_data[cat]
                M  == MatchIdx(cat)
                m  == Cardinality(M)
                n  == IF m < 5 THEN m ELSE 5
            IN  /\ Len(st.examples) = n
                /\ Len(st.top_system_counts) = n
                /\ \A i \in M :
                    LET r == RankIn(M, i)
                    IN  r <= 5 =>
                            /\ st.examples[r] = all_books[i].title
                            /\ st.top_system_counts[r] = CountAt(i)

\* six books match a category, two of them with equal systemCount and different
\* titles, and the later of the two is cut from the examples
C3_Witness ==
    /\ script = "build_theme_stats"
    /\ pc = "returned"
    /\ theme_data["LGBTQ+ Content"].count = 6
    /\ Len(theme_data["LGBTQ+ Content"].examples) = 5
    /\ CountAt(5) = CountAt(6)
    /\ all_books[5].title # all_books[6].title
    /\ theme_data["LGBTQ+ Content"].examples[5] = all_books[5].title

\* C4: for every category, count is the number of all matching books and
\* total_holdings the sum of systemCount over all of them; a book is counted in
\* every category it matches and in no other.
C4_CountAndTotalOverAllMatches ==
    (script = "build_theme_stats" /\ pc = "returned") =>
        \A cat \in DOMAIN THEME_KEYWORDS :
            LET M == MatchIdx(cat)
            IN  /\ theme_data[cat].count = Cardinality(M)
                /\ theme_data[cat].total_holdings = SumCounts(M)

\* more than 5 books match a category and the sixth adds to total_holdings
C4_Witness ==
    /\ script = "build_theme_stats"
    /\ pc = "returned"
    /\ theme_data["LGBTQ+ Content"].count = 6
    /\ theme_data["LGBTQ+ Content"].total_holdings
           > SumSeq(theme_data["LGBTQ+ Content"].top_system_counts)
    /\ theme_data["Gender Identity & Transgender"].count \in 1..5

(***************************************************************************)
(* Claims about build_context.                                             *)
(***************************************************************************)

Returned == script = "render_latex" /\ pc = "render"

\* C1: the three tiers are pairwise disjoint and hold exactly the systems their
\* thresholds name: booksHeld >= 20 in tier1 only, 5..19 in tier2 only, 1..4 in
\* tier3 only, booksHeld 0 in none.
C1_TiersPartition ==
    Returned =>
        /\ \A s \in Range(context.tier1) :
            ~InSeq(s, context.tier2) /\ ~InSeq(s, context.tier3)
        /\ \A s \in Range(context.tier2) : ~InSeq(s, context.tier3)
        /\ \A i \in 1..Len(context.top_systems) :
            LET s == context.top_systems[i]
            IN  /\ InSeq(s, context.tier1) <=> s.booksHeld >= 20
                /\ InSeq(s, context.tier2) <=> s.booksHeld \in 5..19
                /\ InSeq(s, context.tier3) <=> s.booksHeld \in 1..4
        /\ \A s \in Range(context.tier1) \cup Range(context.tier2)
                        \cup Range(context.tier3) : InSeq(s, context.top_systems)

\* the systems A=30, B=10, C=1 were split into tier1=[A], tier2=[B], tier3=[C]
C1_Witness ==
    /\ Returned
    /\ Len(context.top_systems) = 3
    /\ context.top_systems[1].booksHeld = 30
    /\ context.top_systems[2].booksHeld = 10
    /\ context.top_systems[3].booksHeld = 1
    /\ context.tier1 = <<context.top_systems[1]>>
    /\ context.tier2 = <<context.top_systems[2]>>
    /\ context.tier3 = <<context.top_systems[3]>>

\* C5: found_pct is 100 * booksFound / booksScanned rounded to one decimal place
\* (a nearest tenth) when booksScanned > 0, and 0 with no division evaluated and
\* no error when booksScanned is 0.
C5_FoundPct ==
    (script = "render_latex" /\ pc # "build_context") =>
        LET stats == data["summary_stats.json"]
        IN  /\ raised = "none"
            /\ pc = "render"
            /\ \A i \in 1..Len(divisions) : divisions[i] # 0
            /\ stats.booksScanned = 0 =>
                    context.found_pct = 0 /\ divisions = <<>>
            /\ stats.booksScanned > 0 =>
                    LET diff == context.found_pct * stats.booksScanned
                                    - 1000 * stats.booksFound
                    IN  2 * diff <= stats.booksScanned /\ -2 * diff <= stats.booksScanned

\* booksFound=150 of booksScanned=1000 gave 15.0
C5_Witness ==
    /\ Returned
    /\ data["summary_stats.json"].booksScanned = 1000
    /\ data["summary_stats.json"].booksFound = 150
    /\ context.found_pct = 150

(***************************************************************************)
(* Claims about the maps and the charts.                                   *)
(***************************************************************************)

Libraries == data["geocoded_libraries.json"]
Features == data["tx_counties.geojson"].features
Drawn(file) == file \in DOMAIN figures

RECURSIVE SumHeld(_, _)
SumHeld(records, idx) ==
    IF idx = {} THEN 0
    ELSE LET i == CHOOSE j \in idx : TRUE
         IN  records[i].booksHeld + SumHeld(records, idx \ {i})

\* the aggregate of a region: the booksHeld of its enabled libraries that hold
\* books, with or without a coordinate
Aggregate(region) ==
    SumHeld(Libraries, {i \in 1..Len(Libraries) :
        /\ Libraries[i].enabled
        /\ Libraries[i].booksHeld > 0
        /\ Libraries[i].region = region})

\* the same over the libraries that have a coordinate
AggregateLocated(region) ==
    SumHeld(Libraries, {i \in 1..Len(Libraries) :
        /\ Libraries[i].enabled
        /\ Libraries[i].booksHeld > 0
        /\ Libraries[i].lat # None
        /\ Libraries[i].region = region})

HasProperty(f, key) == "properties" \in DOMAIN Features[f] /\ key \in DOMAIN Features[f].properties

\* the shaded value the two-step lookup gives feature f, 0 for "no data"
ShadedValue(f) ==
    LET named == HasProperty(f, "NAME") \/ HasProperty(f, "NAMELSAD") \/ HasProperty(f, "name")
        nm    == IF HasProperty(f, "NAME") THEN Features[f].properties["NAME"]
                 ELSE IF HasProperty(f, "NAMELSAD") THEN Features[f].properties["NAMELSAD"]
                 ELSE Features[f].properties["name"]
    IN  IF ~named THEN 0
        ELSE IF nm = "" THEN 0
        ELSE IF Aggregate(nm \o " County") > 0 THEN Aggregate(nm \o " County")
        ELSE Aggregate(nm)

\* C6: every polygon of every county feature is filled by the two-step lookup on
\* the name under the first of NAME, NAMELSAD, name: the aggregate of
\* "<name> County", else that of "<name>", else (no aggregate, or no name) the
\* "no data" fill; the function does not raise.
C6_TwoStepLookup ==
    (script = "generate_maps" /\ Drawn("texas_coverage_choropleth.pdf")) =>
        LET patches == figures["texas_coverage_choropleth.pdf"].patches
        IN  /\ raised = "none"
            /\ \A f \in 1..Len(Features) :
                Cardinality({k \in 1..Len(patches) : patches[k].feature = f})
                    = PolygonsOf(Features[f])
            /\ \A k \in 1..Len(patches) :
                /\ patches[k].fill.value = ShadedValue(patches[k].feature)
                /\ patches[k].fill.color =
                        IF ShadedValue(patches[k].feature) > 0 THEN "Blues" ELSE "#f0f0f0"

\* the feature named "Travis" was shaded with the aggregate under "Travis County",
\* and a feature without a name got the "no data" fill
C6_Witness ==
    /\ script = "generate_maps"
    /\ Drawn("texas_coverage_choropleth.pdf")
    /\ Len(Features) = 2
    /\ HasProperty(1, "NAME")
    /\ Features[1].properties["NAME"] = "Travis"
    /\ ~HasProperty(2, "NAME") /\ ~HasProperty(2, "NAMELSAD") /\ ~HasProperty(2, "name")
    /\ "Travis County" \in DOMAIN figures["texas_coverage_choropleth.pdf"].county_books
    /\ figures["texas_coverage_choropleth.pdf"].patches[1].fill.value
            = figures["texas_coverage_choropleth.pdf"].county_books["Travis County"]
    /\ figures["texas_coverage_choropleth.pdf"].patches[2].fill.color = "#f0f0f0"

Systems == data["top_systems.json"]

\* C7: no division by a totalCopies of 0 is evaluated; the availability bar chart
\* shows exactly the systems with totalCopies > 0 (the 25 with most booksHeld),
\* the availability map exactly the enabled, located libraries with
\* totalCopies > 0, each at rate totalAvailable / totalCopies.
C7_ZeroCopiesExcluded ==
    /\ \A k \in 1..Len(divisions) : divisions[k] > 0
    /\ (script = "generate_charts" /\ Drawn("availability_bar.pdf")) =>
        LET fig  == figures["availability_bar.pdf"]
            with == {i \in 1..Len(Systems) : Systems[i].totalCopies > 0}
        IN  /\ Len(fig.bars) = IF Cardinality(with) < 25 THEN Cardinality(with) ELSE 25
            /\ \A k \in 1..Len(fig.bars) :
                \E i \in with :
                    /\ fig.bars[k] = <<Systems[i].totalAvailable, Systems[i].totalCopies>>
                    /\ fig.names[k] = Take(Systems[i].systemName, 40)
            /\ Cardinality(with) <= 25 =>
                \A i \in with :
                    Cardinality({k \in 1..Len(fig.bars) :
                        /\ fig.bars[k] = <<Systems[i].totalAvailable, Systems[i].totalCopies>>
                        /\ fig.names[k] = Take(Systems[i].systemName, 40)})
                    >= Cardinality({j \in with : Systems[j] = Systems[i]})
    /\ (script = "generate_maps" /\ Drawn("texas_availability_map.pdf")) =>
        LET fig == figures["texas_availability_map.pdf"]
        IN  /\ Range(fig.points) = {i \in 1..Len(Libraries) :
                    /\ Libraries[i].enabled
                    /\ Libraries[i].lat # None
                    /\ Libraries[i].totalCopies > 0}
            /\ Len(fig.rates) = Len(fig.points)
            /\ \A k \in 1..Len(fig.points) :
                fig.rates[k] = <<Libraries[fig.points[k]].totalAvailable,
                                 Libraries[fig.points[k]].totalCopies>>

\* of a system without copies and one with copies, only the second got a bar
C7_Witness ==
    /\ script = "generate_charts"
    /\ pc = "done"
    /\ Len(Systems) = 2
    /\ Systems[1].totalCopies = 0
    /\ Systems[2].totalCopies > 0
    /\ figures["availability_bar.pdf"].bars
            = <<(<<Systems[2].totalAvailable, Systems[2].totalCopies>>)>>
    /\ divisions = <<Systems[2].totalCopies>>

\* the libraries drawn as a marker in the figure saved under file
Markers(file) ==
    IF "points" \in DOMAIN figures[file] THEN Range(figures[file].points)
    ELSE Range(figures[file].hollow) \cup Range(figures[file].filled)

PointMaps == {"texas_overview_map.pdf", "dfw_inset_map.pdf", "houston_inset_map.pdf",
              "texas_availability_map.pdf"}

NotPlottedWithoutCoordinate ==
    \A file \in PointMaps \cap DOMAIN figures :
        \A i \in Markers(file) : Libraries[i].lat # None

\* C8 as claimed: a library without a coordinate is plotted in no map and its
\* booksHeld is in no county total of the choropleth.
C8_ExcludedFromAllFigures ==
    script = "generate_maps" =>
        /\ NotPlottedWithoutCoordinate
        /\ Drawn("texas_coverage_choropleth.pdf") =>
            LET county_books == figures["texas_coverage_choropleth.pdf"].county_books
            IN  \A i \in 1..Len(Libraries) :
                    Get(county_books, Libraries[i].region, 0)
                        = AggregateLocated(Libraries[i].region)

\* C8 as the code has it: a library without a coordinate is plotted in none of the
\* overview, inset and availability maps, while the county totals of the
\* choropleth sum booksHeld over every enabled library that holds books, by its
\* region, a coordinate or not.
C8_ExcludedFromPointMaps ==
    script = "generate_maps" =>
        /\ NotPlottedWithoutCoordinate
        /\ Drawn("texas_coverage_choropleth.pdf") =>
            LET county_books == figures["texas_coverage_choropleth.pdf"].county_books
            IN  /\ \A i \in 1..Len(Libraries) :
                    Get(county_books, Libraries[i].region, 0)
                        = Aggregate(Libraries[i].region)
                /\ \A county \in DOMAIN county_books : county_books[county] > 0

\* all maps are drawn; the only library has no coordinate, is on no map, and its
\* booksHeld is its county's total
C8_Witness ==
    /\ script = "generate_maps"
    /\ pc = "done"
    /\ Len(Libraries) = 1
    /\ Libraries[1].lat = None
    /\ Libraries[1].enabled
    /\ \A file \in PointMaps : Drawn(file) /\ Markers(file) = {}
    /\ figures["texas_coverage_choropleth.pdf"].county_books[Libraries[1].region]
            = Libraries[1].booksHeld

\* the chart functions with the record list each one draws
ChartInputs ==
    [fn \in {"chart1_top_systems_bar", "chart3_books_per_system_hist",
             "chart6_availability_bar", "chart8_copies_scatter",
             "chart2_top_books_bar", "chart4_systems_per_book_hist",
             "chart5_vendor_breakdown"} |->
        CASE fn \in {"chart1_top_systems_bar", "chart3_books_per_system_hist",
                     "chart6_availability_bar", "chart8_copies_scatter"}
                -> "top_systems.json"
          [] fn \in {"chart2_top_books_bar", "chart4_systems_per_book_hist"}
                -> "top_books.json"
          [] fn = "chart5_vendor_breakdown" -> "system_metadata.json"]

Did(op, fn) == \E k \in 1..Len(events) : events[k].op = op /\ events[k].fn = fn

\* C9: a chart function called on an empty record list does not raise and saves
\* its file.
C9_EmptyListStillSaves ==
    script = "generate_charts" =>
        \A fn \in DOMAIN ChartInputs :
            (data[ChartInputs[fn]] = <<>> /\ (Did("subplots", fn) \/ Did("raise", fn))) =>
                ~Did("raise", fn) /\ Did("savefig", fn)

\* C10: makedirs is the first event and the only one of its kind; after it every
\* function opens one figure, saves one file, closes the figure and prints one
\* line, in this order and before the next function opens a figure; no two saved
\* files have the same name.
C10_OneFigureAtATime ==
    script \in {"generate_charts", "generate_maps"} =>
        /\ events # <<>> => events[1].op = "makedirs"
        /\ \A k \in 2..Len(events) : events[k].op # "makedirs"
        /\ \A k \in 2..Len(events) :
            /\ events[k].op \in {"subplots", "savefig", "close", "print"}
            /\ events[k].op = "subplots" <=> k % 4 = 2
            /\ events[k].op = "subplots" =>
                /\ k + 3 <= Len(events)
                /\ events[k + 1].op = "savefig" /\ events[k + 1].fn = events[k].fn
                /\ events[k + 2].op = "close" /\ events[k + 2].fn = events[k].fn
                /\ events[k + 3].op = "print" /\ events[k + 3].fn = events[k].fn
                /\ events[k + 3].file = events[k + 1].file
        /\ \A j, k \in 1..Len(events) :
            (events[j].op = "savefig" /\ events[k].op = "savefig" /\ j # k) =>
                events[j].file # events[k].file

\* the histograms with their bin width
Histograms ==
    [file \in {"books_per_system_hist.pdf", "systems_per_book_hist.pdf"} |->
        IF file = "books_per_system_hist.pdf" THEN 10 ELSE 5]

\* C11: a histogram of a non-empty list has the edges 0, w, 2w, ..., at least two
\* of them, and its highest edge is greater than the largest value, also when that
\* value is 0 or a multiple of w.
C11_BinsBeyondMaximum ==
    script = "generate_charts" =>
        \A file \in DOMAIN Histograms \cap DOMAIN figures :
            LET fig == figures[file]
                w   == Histograms[file]
            IN  fig.values # <<>> =>
                    /\ \A k \in 1..Len(fig.bins) : fig.bins[k] = (k - 1) * w
                    /\ Len(fig.bins) >= 2
                    /\ \A i \in 1..Len(fig.values) :
                            fig.values[i] < fig.bins[Len(fig.bins)]

Metadata == data["system_metadata.json"]
Stats == data["summary_stats.json"]

\* the enabled systems of a vendor
EnabledOf(vendor) ==
    {i \in 1..Len(Metadata) : Metadata[i].enabled /\ Metadata[i].vendor = vendor}

\* the vendor chart: one slice per vendor of an enabled system, sized by the number
\* of its enabled systems, the sizes never increasing, each slice in the color
\* VENDOR_COLORS gives its vendor, or #bdc3c7
VendorSlicesDescending ==
    Drawn("vendor_breakdown.pdf") =>
        LET slices == figures["vendor_breakdown.pdf"].slices
        IN  /\ \A j, k \in 1..Len(slices) : j < k =>
                    /\ slices[j].vendor # slices[k].vendor
                    /\ slices[j].size >= slices[k].size
            /\ {slices[k].vendor : k \in 1..Len(slices)}
                    = {Metadata[i].vendor : i \in {j \in 1..Len(Metadata) : Metadata[j].enabled}}
            /\ \A k \in 1..Len(slices) :
                    /\ slices[k].size = Cardinality(EnabledOf(slices[k].vendor))
                    /\ slices[k].color =
                            IF slices[k].vendor \in DOMAIN VENDOR_COLORS
                            THEN VENDOR_COLORS[slices[k].vendor]
                            ELSE "#bdc3c7"

\* C12 as claimed: the vendor slices are in descending order and colored from the
\* table, and the first slice of the found / not found chart is the larger of
\* booksFound and booksNotFound.
C12_SlicesDescending ==
    script = "generate_charts" =>
        /\ VendorSlicesDescending
        /\ Drawn("found_vs_notfound.pdf") =>
            LET slices == figures["found_vs_notfound.pdf"].slices
            IN  /\ slices[1].size >= slices[2].size
                /\ {slices[1].size, slices[2].size} = {Stats.booksFound, Stats.booksNotFound}

\* C12 as the code has it: the vendor slices are in descending order of the number
\* of enabled systems and colored from the table, with #bdc3c7 for a vendor the
\* table lacks; the found / not found chart always lists "Found" (booksFound) first
\* and "Not found" (booksNotFound) second, whichever is larger.
C12_VendorsDescendingFoundFirst ==
    script = "generate_charts" =>
        /\ VendorSlicesDescending
        /\ Drawn("found_vs_notfound.pdf") =>
            LET slices == figures["found_vs_notfound.pdf"].slices
            IN  /\ Len(slices) = 2
                /\ slices[1].vendor = "Found" /\ slices[1].size = Stats.booksFound
                /\ slices[2].vendor = "Not found" /\ slices[2].size = Stats.booksNotFound

\* the vendor counted second has more enabled systems and comes first, the vendor
\* missing from the table is #bdc3c7, and "Found" is first though it is smaller
C12_Witness ==
    /\ script = "generate_charts"
    /\ pc = "done"
    /\ Len(Metadata) = 3
    /\ Metadata[1].vendor = "evergreen"
    /\ Len(figures["vendor_breakdown.pdf"].slices) = 2
    /\ figures["vendor_breakdown.pdf"].slices[1] =
            [vendor |-> "koha", size |-> 2, color |-> "#34495e"]
    /\ figures["vendor_breakdown.pdf"].slices[2] =
            [vendor |-> "evergreen", size |-> 1, color |-> "#bdc3c7"]
    /\ Stats.booksFound < Stats.booksNotFound
    /\ figures["found_vs_notfound.pdf"].slices[1].size = Stats.booksFound

TopBooks == data["top_books.json"]

\* a label within its budget as it is, a longer one as its first budget characters
\* and "..."
WithEllipsis(label, budget) ==
    IF Len(label) <= budget THEN label
    ELSE [k \in 1..(budget + 3) |-> IF k <= budget THEN label[k] ELSE "."]

\* C13: the labels of the three bar charts are their texts cut to the chart's
\* budget (40 characters for a system name, 45 for a title) with "..." behind a
\* text that was cut, and the texts within the budget unchanged.
C13_LabelsCutWithEllipsis ==
    script = "generate_charts" =>
        /\ Drawn("top_systems_bar.pdf") =>
            LET names == figures["top_systems_bar.pdf"].names
                n     == IF Len(Systems) < 25 THEN Len(Systems) ELSE 25
            IN  /\ Len(names) = n
                /\ \A k \in 1..n :
                        names[k] = WithEllipsis(Systems[n + 1 - k].systemName, 40)
        /\ Drawn("top_books_bar.pdf") =>
            LET names == figures["top_books_bar.pdf"].names
                n     == IF Len(TopBooks) < 25 THEN Len(TopBooks) ELSE 25
            IN  /\ Len(names) = n
                /\ \A k \in 1..n :
                        names[k] = WithEllipsis(TopBooks[n + 1 - k].title, 45)
        /\ Drawn("availability_bar.pdf") =>
            LET fig == figures["availability_bar.pdf"]
            IN  \A k \in 1..Len(fig.names) :
                    \E i \in 1..Len(Systems) :
                        /\ Systems[i].totalCopies > 0
                        /\ fig.bars[k] = <<Systems[i].totalAvailable, Systems[i].totalCopies>>
                        /\ fig.names[k] = WithEllipsis(Systems[i].systemName, 40)

\* the enabled libraries with a coordinate in the window, its edges included
InWindow ==
    {i \in 1..Len(Libraries) :
        /\ Libraries[i].enabled
        /\ Libraries[i].lat # None
        /\ data["bounds"].lat[1] <= Libraries[i].lat[1]
        /\ Libraries[i].lat[1] <= data["bounds"].lat[2]
        /\ data["bounds"].lon[1] <= Libraries[i].lng[1]
        /\ Libraries[i].lng[1] <= data["bounds"].lon[2]}

InsetLabelled ==
    {figures["inset_map.pdf"].labels[k].lib :
        k \in 1..Len(figures["inset_map.pdf"].labels)}

\* C14 as claimed: the inset map plots exactly the enabled libraries with a
\* coordinate inside the window, edges and corners included, and labels exactly
\* the plotted ones whose booksHeld is at least label_threshold, whatever the
\* threshold.
C14_LabelsAtThreshold ==
    Drawn("inset_map.pdf") =>
        /\ Markers("inset_map.pdf") = InWindow
        /\ InsetLabelled = {i \in InWindow : Libraries[i].booksHeld >= data["label_threshold"]}

\* C14 as the code has it: the inset map plots exactly the enabled libraries with
\* a coordinate inside the window, edges and corners included, and labels exactly
\* the plotted ones that hold books (booksHeld > 0) and whose booksHeld is at
\* least label_threshold; a library with booksHeld 0 is never labelled, also when
\* label_threshold is 0.
C14_LabelsHoldersAtThreshold ==
    Drawn("inset_map.pdf") =>
        /\ Markers("inset_map.pdf") = InWindow
        /\ Len(figures["inset_map.pdf"].hollow) + Len(figures["inset_map.pdf"].filled)
                = Cardinality(InWindow)
        /\ InsetLabelled = {i \in InWindow :
                                /\ Libraries[i].booksHeld > 0
                                /\ Libraries[i].booksHeld >= data["label_threshold"]}

\* a library on the corner of the window with booksHeld 15 is plotted and labelled
\* at threshold 15, one outside the window is not plotted
C14_Witness ==
    /\ Drawn("inset_map.pdf")
    /\ data["label_threshold"] = 15
    /\ data["bounds"] = DFW_BOUNDS
    /\ Len(Libraries) = 2
    /\ Libraries[1].lat = <<323>> /\ Libraries[1].lng = <<-978>>
    /\ Libraries[1].booksHeld = 15
    /\ Libraries[2].enabled /\ Libraries[2].lat = <<303>>
    /\ Markers("inset_map.pdf") = {1}
    /\ InsetLabelled = {1}

\* C15: what the loader returned stays as it was loaded: no record has a field
\* added or changed and no loaded list is reordered, in the charts, the maps and
\* the context builder.
C15_LoadedUnchanged ==
    /\ script \in {"generate_charts", "render_latex"} =>
            \A file \in DOMAIN loaded : loaded[file] = data[file]
    /\ (script = "generate_maps" /\ DOMAIN loaded # {}) =>
            /\ loaded.libraries = data["geocoded_libraries.json"]
            /\ loaded.counties = data["tx_counties.geojson"]

\* C16: truncate_text returns at most max_len characters: the text itself when it
\* has at most max_len characters, else a prefix of the text and "...", max_len
\* characters in all.
C16_AtMostMaxLen ==
    (script = "truncate_text" /\ pc = "returned") =>
        LET result  == context["result"]
            max_len == data["max_len"]
        IN  /\ Len(result) <= max_len
            /\ Len(title) <= max_len => result = title
            /\ Len(title) > max_len =>
                /\ Len(result) = max_len
                /\ max_len >= 3
                /\ \A k \in 1..max_len :
                        result[k] = IF k <= max_len - 3 THEN title[k] ELSE "."

====
